---- MODULE Spec2Model ----
(***************************************************************************)
(* ChaveroCoin: a NEP-141 fungible token contract.  src/ft/src/lib.rs      *)
(* declares the Contract {token, metadata}, its two initializers and the   *)
(* two burn/close hooks, and obtains every other public method from the    *)
(* near_contract_standards macros impl_fungible_token_core (line 88) and   *)
(* impl_fungible_token_storage (line 89).  The model follows the methods   *)
(* those macros generate on the FungibleToken held in Contract.token.      *)
(* A call that panics is reverted by the host and commits nothing: the     *)
(* panic is the value of the method's *_err operator, and only a call      *)
(* whose *_err is "ok" takes a step.                                       *)
(***************************************************************************)
EXTENDS Integers, Sequences, FiniteSets, Bags, TLC

\* ---------------------------------------------------------------- bounds
MaxSupply == 2
MaxPending == 1

\* ------------------------------------------------------------- constants
\* Balance is u128 (lib.rs line 4: "limited by U128 (2**128 - 1)"); the width is
\* scaled: every U128 argument ranges over 0..U128_MAX.
U128_MAX == MaxSupply
\* FT_METADATA_SPEC, the only spec string assert_valid accepts.
FT_METADATA_SPEC == "ft-1.0.0"
\* Bytes of one ledger entry, measured by FungibleToken::new (scaled).
AccountStorageUsage == 1
\* env::storage_byte_cost() (scaled).
StorageByteCost == 1

\* ---------------------------------------------------------------- inputs
AccountIds == {"alice", "bob", "carol"}
Amounts == 0..U128_MAX
Supplies == 0..MaxSupply
Deposits == 0..(AccountStorageUsage * StorageByteCost + 1)
YoctoDeposits == 0..2
Metadatas ==
    {[spec |-> FT_METADATA_SPEC, reference |-> FALSE, reference_hash |-> FALSE],
     [spec |-> FT_METADATA_SPEC, reference |-> TRUE, reference_hash |-> FALSE],
     [spec |-> "ft-0.0.0", reference |-> FALSE, reference_hash |-> FALSE]}
\* Option<U128> argument of storage_withdraw
OptAmounts == {[is_some |-> FALSE, value |-> 0]} \cup [is_some : {TRUE}, value : 0..1]
\* Option<bool> argument of storage_unregister
OptBools == {"None", "Some(false)", "Some(true)"}
\* env::current_account_id(): the account the contract is deployed on
CurrentAccountId == "chaverocoin"
\* who can call a method: the users and the contract's own account
Callers == AccountIds \cup {CurrentAccountId}
\* outcome of the ft_on_transfer promise as seen by env::promise_result(0)
PromiseResults ==
    {[kind |-> "Failed", value |-> 0], [kind |-> "Unparsable", value |-> 0]}
    \cup [kind : {"Successful"}, value : Amounts]

VARIABLES
    state_exists,   \* env::state_exists(): the Contract has been written
    accounts,       \* token.accounts : LookupMap<AccountId, Balance>
    total_supply,   \* token.total_supply
    metadata,       \* Contract.metadata (LazyOption)
    pending,        \* bag of ft_on_transfer promises whose ft_resolve_transfer has not run
    result          \* what the last committed call returned and logged

vars == <<state_exists, accounts, total_supply, metadata, pending, result>>

ledger == <<accounts, total_supply>>

NoMetadata == [spec |-> "", reference |-> FALSE, reference_hash |-> FALSE]

\* ------------------------------------------------------ LookupMap helpers
EmptyMap == [x \in {} |-> 0]
contains_key(map, k) == k \in DOMAIN map
get_or_0(map, k) == IF k \in DOMAIN map THEN map[k] ELSE 0
insert(map, k, v) == [x \in (DOMAIN map) \cup {k} |-> IF x = k THEN v ELSE map[x]]
remove(map, k) == [x \in (DOMAIN map) \ {k} |-> map[x]]

RECURSIVE SumOver(_, _)
SumOver(map, keys) ==
    IF keys = {} THEN 0
    ELSE LET k == CHOOSE x \in keys : TRUE
         IN map[k] + SumOver(map, keys \ {k})
SumBalances(map) == SumOver(map, DOMAIN map)

\* ------------------------------------------------------------------ views
\* a view method reads the Contract from storage first (PanicOnDefault)
ft_view_err == IF ~state_exists THEN "NotInitialized" ELSE "ok"
ft_total_supply == total_supply
ft_balance_of(account_id) == get_or_0(accounts, account_id)
storage_balance_bounds_min == AccountStorageUsage * StorageByteCost
\* Option<U128>
None == [is_some |-> FALSE, value |-> 0]
Some(v) == [is_some |-> TRUE, value |-> v]
\* faulty variant: no upper bound is reported
storage_balance_bounds_unbounded == [min |-> storage_balance_bounds_min, max |-> None]
\* StorageBalanceBounds {min, max}: both are the cost of one ledger entry
storage_balance_bounds ==
    [min |-> storage_balance_bounds_min, max |-> Some(storage_balance_bounds_min)]

\* ------------------------------------------------------- call outcomes
NoLog == [event |-> "", account |-> "", amount |-> 0]
Log(event, account_id, amount) == [event |-> event, account |-> account_id, amount |-> amount]
\* op: the method; val: the number it returned (for storage_deposit: the
\* refund it sent back); log: what it logged or the hook it ran; before: the
\* promise an ft_transfer_call created or an ft_resolve_transfer resolved,
\* with the sender's and the receiver's ft_balance_of and ft_total_supply
\* when the ft_transfer_call began, kept while no other call has committed
\* since.
NoPromise == [sender_id |-> "", receiver_id |-> "", amount |-> 0]
NoBefore == [promise |-> NoPromise, sender |-> 0, receiver |-> 0, total_supply |-> 0]
Outcome(op, val, log, before) == [op |-> op, val |-> val, log |-> log, before |-> before]

\* The call returns: the token is written back to storage.
Commit(t, pend, outcome) ==
    /\ accounts' = t.accounts
    /\ total_supply' = t.total_supply
    /\ pending' = pend
    /\ result' = outcome
    /\ UNCHANGED <<state_exists, metadata>>

\* ------------------------------------------- FungibleToken internals
\* A token value is [accounts, total_supply]; an internal step yields
\* [err, t]: err = "ok" and the new token, or the panic it raises.
Token == [accounts |-> accounts, total_supply |-> total_supply]
Ok(t) == [err |-> "ok", t |-> t]
Fail(err, t) == [err |-> err, t |-> t]

internal_register_account(t, account_id) ==
    IF contains_key(t.accounts, account_id)
    THEN Fail("AlreadyRegistered", t)
    ELSE Ok([t EXCEPT !.accounts = insert(t.accounts, account_id, 0)])

\* faulty variant: a credit registers the account when it has no entry
internal_deposit_registers(t, account_id, amount) ==
    LET balance == get_or_0(t.accounts, account_id)
    IN IF balance + amount > U128_MAX THEN Fail("Overflow", t)
       ELSE IF t.total_supply + amount > U128_MAX THEN Fail("Overflow", t)
       ELSE Ok([accounts |-> insert(t.accounts, account_id, balance + amount),
                total_supply |-> t.total_supply + amount])

\* faulty variant: the credit is not added to total_supply
internal_deposit_no_supply(t, account_id, amount) ==
    IF ~contains_key(t.accounts, account_id) THEN Fail("AccountNotRegistered", t)
    ELSE IF t.accounts[account_id] + amount > U128_MAX THEN Fail("Overflow", t)
    ELSE Ok([t EXCEPT !.accounts =
                 insert(t.accounts, account_id, t.accounts[account_id] + amount)])

internal_deposit(t, account_id, amount) ==
    IF ~contains_key(t.accounts, account_id) THEN Fail("AccountNotRegistered", t)
    ELSE IF t.accounts[account_id] + amount > U128_MAX THEN Fail("Overflow", t)
    ELSE IF t.total_supply + amount > U128_MAX THEN Fail("Overflow", t)
    ELSE Ok([accounts |-> insert(t.accounts, account_id, t.accounts[account_id] + amount),
             total_supply |-> t.total_supply + amount])

\* faulty variant: the debit is checked but not written to the sender's balance
internal_withdraw_no_debit(t, account_id, amount) ==
    IF ~contains_key(t.accounts, account_id) THEN Fail("AccountNotRegistered", t)
    ELSE IF amount > t.accounts[account_id] THEN Fail("InsufficientBalance", t)
    ELSE Ok(t)

\* faulty variant: the debit is not subtracted from total_supply
internal_withdraw_keeps_supply(t, account_id, amount) ==
    IF ~contains_key(t.accounts, account_id) THEN Fail("AccountNotRegistered", t)
    ELSE IF amount > t.accounts[account_id] THEN Fail("InsufficientBalance", t)
    ELSE Ok([t EXCEPT !.accounts =
                 insert(t.accounts, account_id, t.accounts[account_id] - amount)])

internal_withdraw(t, account_id, amount) ==
    IF ~contains_key(t.accounts, account_id) THEN Fail("AccountNotRegistered", t)
    ELSE IF amount > t.accounts[account_id] THEN Fail("InsufficientBalance", t)
    ELSE IF amount > t.total_supply THEN Fail("Overflow", t)
    ELSE Ok([accounts |-> insert(t.accounts, account_id, t.accounts[account_id] - amount),
             total_supply |-> t.total_supply - amount])

\* faulty variant: the amount is not required to be positive
internal_transfer_allows_zero(t, sender_id, receiver_id, amount) ==
    IF sender_id = receiver_id THEN Fail("SenderIsReceiver", t)
    ELSE LET w == internal_withdraw(t, sender_id, amount)
         IN IF w.err # "ok" THEN w
            ELSE internal_deposit(w.t, receiver_id, amount)

internal_transfer(t, sender_id, receiver_id, amount) ==
    IF sender_id = receiver_id THEN Fail("SenderIsReceiver", t)
    ELSE IF ~(amount > 0) THEN Fail("InvalidAmount", t)
    ELSE LET w == internal_withdraw(t, sender_id, amount)
         IN IF w.err # "ok" THEN w
            ELSE internal_deposit(w.t, receiver_id, amount)

\* ---------------------------------------------------------- initializers
assert_valid(m) ==
    /\ m.spec = FT_METADATA_SPEC
    /\ m.reference = m.reference_hash

FungibleToken_new == [accounts |-> EmptyMap, total_supply |-> 0]

\* faulty variant: the initializer does not look at env::state_exists()
new_err_reinitializes(owner_id, supply, m) ==
    IF ~assert_valid(m) THEN "InvalidMetadata"
    ELSE "ok"

new_err(owner_id, supply, m) ==
    IF state_exists THEN "AlreadyInitialized"
    ELSE IF ~assert_valid(m) THEN "InvalidMetadata"
    ELSE "ok"

new(owner_id, supply, m) ==
    /\ new_err(owner_id, supply, m) = "ok"
    /\ LET r == internal_register_account(FungibleToken_new, owner_id)
           d == internal_deposit(r.t, owner_id, supply)
       IN /\ state_exists' = TRUE
          /\ accounts' = d.t.accounts
          /\ total_supply' = d.t.total_supply
          /\ metadata' = m
          /\ pending' = EmptyBag
          /\ result' = Outcome("new", 0, NoLog, NoBefore)

\* the FungibleTokenMetadata new_default_meta builds: the spec string is
\* FT_METADATA_SPEC, reference is Some(..) and reference_hash is None
DefaultMetadata ==
    [spec |-> FT_METADATA_SPEC, reference |-> TRUE, reference_hash |-> FALSE]

new_default_meta_err(owner_id, supply) == new_err(owner_id, supply, DefaultMetadata)

\* new_default_meta is Self::new on DefaultMetadata
new_default_meta(owner_id, supply) == new(owner_id, supply, DefaultMetadata)

\* ------------------------------------------ FungibleTokenMetadataProvider
ft_metadata_err == IF ~state_exists THEN "NotInitialized" ELSE "ok"
\* self.metadata.get().unwrap()
ft_metadata == metadata

\* ------------------------------------------------ FungibleTokenCore
assert_one_yocto(deposit) == deposit = 1

\* FungibleToken::ft_transfer up to its return: the panic or "ok", and the token
ft_transfer_run(sender_id, receiver_id, amount, deposit) ==
    IF ~state_exists THEN Fail("NotInitialized", Token)
    ELSE IF ~assert_one_yocto(deposit) THEN Fail("RequiresOneYocto", Token)
    ELSE internal_transfer(Token, sender_id, receiver_id, amount)

ft_transfer_err(sender_id, receiver_id, amount, deposit) ==
    ft_transfer_run(sender_id, receiver_id, amount, deposit).err

ft_transfer(sender_id, receiver_id, amount, deposit) ==
    LET r == ft_transfer_run(sender_id, receiver_id, amount, deposit)
    IN /\ r.err = "ok"
       /\ Commit(r.t, pending, Outcome("ft_transfer", 0, NoLog, NoBefore))

ft_transfer_call_err(sender_id, receiver_id, amount, deposit) ==
    ft_transfer_run(sender_id, receiver_id, amount, deposit).err

\* the initiate phase: the transfer, then the ft_on_transfer promise with the
\* ft_resolve_transfer(sender_id, receiver_id, amount) callback chained to it
ft_transfer_call(sender_id, receiver_id, amount, deposit) ==
    LET r == ft_transfer_run(sender_id, receiver_id, amount, deposit)
        promise == [sender_id |-> sender_id, receiver_id |-> receiver_id, amount |-> amount]
    IN /\ BagCardinality(pending) < MaxPending
       /\ r.err = "ok"
       /\ Commit(r.t, pending (+) SetToBag({promise}),
                 Outcome("ft_transfer_call", 0, NoLog,
                         [promise |-> promise,
                          sender |-> ft_balance_of(sender_id),
                          receiver |-> ft_balance_of(receiver_id),
                          total_supply |-> ft_total_supply]))

\* ------------------------------------------- FungibleTokenResolver
Min(a, b) == IF a < b THEN a ELSE b

\* faulty variant: the returned value is read as the used amount
unused_amount_reads_used(amount, promise_result) ==
    IF promise_result.kind = "Successful"
    THEN amount - Min(amount, promise_result.value)
    ELSE amount

\* faulty variant: a failed call leaves nothing to refund
unused_amount_failed_is_used(amount, promise_result) ==
    IF promise_result.kind = "Successful" THEN Min(amount, promise_result.value)
    ELSE 0

\* the unused amount read from the ft_on_transfer result
\* faulty variant: the returned value is not limited to the amount
unused_amount_unclamped(amount, promise_result) ==
    IF promise_result.kind = "Successful" THEN promise_result.value
    ELSE amount

unused_amount(amount, promise_result) ==
    IF promise_result.kind = "Successful" THEN Min(amount, promise_result.value)
    ELSE amount

\* faulty variant: the refunded amount is returned in place of the used amount
internal_ft_resolve_transfer_returns_refund(t, sender_id, receiver_id, amount, promise_result) ==
    LET unused == unused_amount(amount, promise_result)
        receiver_balance == get_or_0(t.accounts, receiver_id)
        refund_amount == Min(receiver_balance, unused)
        debited == insert(t.accounts, receiver_id, receiver_balance - refund_amount)
    IN IF unused > 0 /\ receiver_balance > 0
       THEN IF contains_key(debited, sender_id)
            THEN [t |-> [t EXCEPT !.accounts =
                            insert(debited, sender_id, debited[sender_id] + refund_amount)],
                  used |-> refund_amount, burned |-> 0,
                  refunded |-> refund_amount]
            ELSE [t |-> [accounts |-> debited,
                         total_supply |-> t.total_supply - refund_amount],
                  used |-> 0, burned |-> refund_amount, refunded |-> 0]
       ELSE [t |-> t, used |-> 0, burned |-> 0, refunded |-> 0]

\* faulty variant: the sender is re-credited with the unused amount whatever
\* the receiver still holds
internal_ft_resolve_transfer_credits_sender(t, sender_id, receiver_id, amount, promise_result) ==
    LET unused == unused_amount(amount, promise_result)
        receiver_balance == get_or_0(t.accounts, receiver_id)
        taken == Min(receiver_balance, unused)
        debited == IF contains_key(t.accounts, receiver_id)
                   THEN insert(t.accounts, receiver_id, receiver_balance - taken)
                   ELSE t.accounts
    IN IF unused > 0 /\ contains_key(debited, sender_id)
       THEN [t |-> [t EXCEPT !.accounts =
                       insert(debited, sender_id, debited[sender_id] + unused)],
             used |-> amount - unused, burned |-> 0, refunded |-> unused]
       ELSE [t |-> t, used |-> amount, burned |-> 0, refunded |-> 0]

\* faulty variant: the refund is not limited to what the receiver holds
internal_ft_resolve_transfer_refunds_unused(t, sender_id, receiver_id, amount, promise_result) ==
    LET unused == unused_amount(amount, promise_result)
        receiver_balance == get_or_0(t.accounts, receiver_id)
        refund_amount == unused
        debited == insert(t.accounts, receiver_id, receiver_balance - refund_amount)
    IN IF unused > 0 /\ receiver_balance > 0
       THEN IF contains_key(debited, sender_id)
            THEN [t |-> [t EXCEPT !.accounts =
                            insert(debited, sender_id, debited[sender_id] + refund_amount)],
                  used |-> amount - refund_amount, burned |-> 0,
                  refunded |-> refund_amount]
            ELSE [t |-> [accounts |-> debited,
                         total_supply |-> t.total_supply - refund_amount],
                  used |-> amount, burned |-> refund_amount, refunded |-> 0]
       ELSE [t |-> t, used |-> amount, burned |-> 0, refunded |-> 0]

\* faulty variant: a sender without an account gets a new entry holding the refund
internal_ft_resolve_transfer_recreates_sender(t, sender_id, receiver_id, amount, promise_result) ==
    LET unused == unused_amount(amount, promise_result)
        receiver_balance == get_or_0(t.accounts, receiver_id)
        refund_amount == Min(receiver_balance, unused)
        debited == insert(t.accounts, receiver_id, receiver_balance - refund_amount)
    IN IF unused > 0 /\ receiver_balance > 0
       THEN [t |-> [t EXCEPT !.accounts =
                       insert(debited, sender_id,
                              get_or_0(debited, sender_id) + refund_amount)],
             used |-> amount - refund_amount, burned |-> 0,
             refunded |-> refund_amount]
       ELSE [t |-> t, used |-> amount, burned |-> 0, refunded |-> 0]

\* yields the token, the used amount, the burned amount and the refund logged
internal_ft_resolve_transfer(t, sender_id, receiver_id, amount, promise_result) ==
    LET unused == unused_amount(amount, promise_result)
        receiver_balance == get_or_0(t.accounts, receiver_id)
        refund_amount == Min(receiver_balance, unused)
        debited == insert(t.accounts, receiver_id, receiver_balance - refund_amount)
    IN IF unused > 0 /\ receiver_balance > 0
       THEN IF contains_key(debited, sender_id)
            THEN [t |-> [t EXCEPT !.accounts =
                            insert(debited, sender_id, debited[sender_id] + refund_amount)],
                  used |-> amount - refund_amount, burned |-> 0,
                  refunded |-> refund_amount]
            ELSE [t |-> [accounts |-> debited,
                         total_supply |-> t.total_supply - refund_amount],
                  used |-> amount, burned |-> refund_amount, refunded |-> 0]
       ELSE [t |-> t, used |-> amount, burned |-> 0, refunded |-> 0]

\* faulty variant: the method does not need a promise result
ft_resolve_transfer_err_no_promise(predecessor, is_callback) ==
    IF predecessor # CurrentAccountId THEN "Private"
    ELSE IF ~state_exists THEN "NotInitialized"
    ELSE "ok"

\* ft_resolve_transfer is #[private] and reads env::promise_result(0): it runs
\* only as the callback this contract chained to one of its own promises.
ft_resolve_transfer_err(predecessor, is_callback) ==
    IF predecessor # CurrentAccountId THEN "Private"
    ELSE IF ~state_exists THEN "NotInitialized"
    ELSE IF ~is_callback THEN "NoPromiseResult"
    ELSE "ok"

\* Promise p belongs to the ft_transfer_call that committed last, and no call
\* has committed since.
Quiet(p) == result.op = "ft_transfer_call" /\ result.before.promise = p

\* the resolve phase: the callback of promise p, run once its outcome is
\* known; the host runs the callback once and the promise is gone
ft_resolve_transfer(p, promise_result) ==
    /\ BagIn(p, pending)
    /\ ft_resolve_transfer_err(CurrentAccountId, TRUE) = "ok"
    /\ LET r == internal_ft_resolve_transfer(Token, p.sender_id, p.receiver_id,
                                             p.amount, promise_result)
       IN Commit(r.t, pending (-) SetToBag({p}),
                 Outcome("ft_resolve_transfer", r.used,
                         IF r.burned > 0
                         THEN Log("on_tokens_burned", p.sender_id, r.burned)
                         ELSE IF r.refunded > 0
                         THEN Log("Refund", p.sender_id, r.refunded)
                         ELSE NoLog,
                         IF Quiet(p) THEN result.before
                         ELSE [NoBefore EXCEPT !.promise = p]))

\* ------------------------------------------------ StorageManagement
\* faulty variant: the contract is built by Default when no state exists
storage_deposit_err_default_state(predecessor, account_id, deposit) ==
    IF contains_key(accounts, account_id) THEN "ok"
    ELSE IF deposit < storage_balance_bounds_min THEN "InsufficientDeposit"
    ELSE "ok"

\* faulty variant: registration does not require the minimum storage balance
storage_deposit_err_no_minimum(predecessor, account_id, deposit) ==
    IF ~state_exists THEN "NotInitialized"
    ELSE "ok"

storage_deposit_err(predecessor, account_id, deposit) ==
    IF ~state_exists THEN "NotInitialized"
    ELSE IF contains_key(accounts, account_id) THEN "ok"
    ELSE IF deposit < storage_balance_bounds_min THEN "InsufficientDeposit"
    ELSE "ok"

\* what the call sends back to the predecessor (Promise::transfer)
storage_deposit_refund(account_id, deposit) ==
    IF contains_key(accounts, account_id) THEN deposit
    ELSE deposit - storage_balance_bounds_min

\* what the predecessor gets back of the deposit it attached: the refund the
\* call sends, or all of it when the call panics and the host reverts it
storage_deposit_returned(predecessor, account_id, deposit) ==
    IF storage_deposit_err(predecessor, account_id, deposit) = "ok"
    THEN storage_deposit_refund(account_id, deposit)
    ELSE deposit

storage_deposit(predecessor, account_id, deposit) ==
    /\ storage_deposit_err(predecessor, account_id, deposit) = "ok"
    /\ LET t == IF contains_key(accounts, account_id) THEN Token
                ELSE internal_register_account(Token, account_id).t
           refund == storage_deposit_refund(account_id, deposit)
       IN Commit(t, pending,
                 Outcome("storage_deposit", refund, NoLog, NoBefore))

storage_withdraw_err(predecessor, amount, deposit) ==
    IF ~state_exists THEN "NotInitialized"
    ELSE IF ~assert_one_yocto(deposit) THEN "RequiresOneYocto"
    ELSE IF ~contains_key(accounts, predecessor) THEN "AccountNotRegistered"
    ELSE IF amount.is_some /\ amount.value > 0 THEN "ExcessWithdrawal"
    ELSE "ok"

storage_withdraw(predecessor, amount, deposit) ==
    /\ storage_withdraw_err(predecessor, amount, deposit) = "ok"
    /\ Commit(Token, pending,
              Outcome("storage_withdraw", 0, NoLog, NoBefore))

unwrap_or_false(force) == force = "Some(true)"

\* faulty variant: the closed account's balance stays in total_supply
internal_storage_unregister_no_burn(t, account_id, force, deposit) ==
    IF ~assert_one_yocto(deposit)
    THEN [err |-> "RequiresOneYocto", t |-> t, closed |-> FALSE, balance |-> 0]
    ELSE IF contains_key(t.accounts, account_id)
    THEN LET balance == t.accounts[account_id]
         IN IF balance = 0 \/ unwrap_or_false(force)
            THEN [err |-> "ok",
                  t |-> [t EXCEPT !.accounts = remove(t.accounts, account_id)],
                  closed |-> TRUE, balance |-> balance]
            ELSE [err |-> "AccountHasBalance", t |-> t, closed |-> FALSE, balance |-> 0]
    ELSE [err |-> "ok", t |-> t, closed |-> FALSE, balance |-> 0]

\* faulty variant: force is not consulted
internal_storage_unregister_ignores_force(t, account_id, force, deposit) ==
    IF ~assert_one_yocto(deposit)
    THEN [err |-> "RequiresOneYocto", t |-> t, closed |-> FALSE, balance |-> 0]
    ELSE IF contains_key(t.accounts, account_id)
    THEN LET balance == t.accounts[account_id]
         IN [err |-> "ok",
             t |-> [accounts |-> remove(t.accounts, account_id),
                    total_supply |-> t.total_supply - balance],
             closed |-> TRUE, balance |-> balance]
    ELSE [err |-> "ok", t |-> t, closed |-> FALSE, balance |-> 0]

\* yields err, the token, and whether an account was closed and with what balance
internal_storage_unregister(t, account_id, force, deposit) ==
    IF ~assert_one_yocto(deposit)
    THEN [err |-> "RequiresOneYocto", t |-> t, closed |-> FALSE, balance |-> 0]
    ELSE IF contains_key(t.accounts, account_id)
    THEN LET balance == t.accounts[account_id]
         IN IF balance = 0 \/ unwrap_or_false(force)
            THEN [err |-> "ok",
                  t |-> [accounts |-> remove(t.accounts, account_id),
                         total_supply |-> t.total_supply - balance],
                  closed |-> TRUE, balance |-> balance]
            ELSE [err |-> "AccountHasBalance", t |-> t, closed |-> FALSE, balance |-> 0]
    ELSE [err |-> "ok", t |-> t, closed |-> FALSE, balance |-> 0]

storage_unregister_err(predecessor, force, deposit) ==
    IF ~state_exists THEN "NotInitialized"
    ELSE internal_storage_unregister(Token, predecessor, force, deposit).err

storage_unregister(predecessor, force, deposit) ==
    /\ storage_unregister_err(predecessor, force, deposit) = "ok"
    /\ LET r == internal_storage_unregister(Token, predecessor, force, deposit)
       IN Commit(r.t, pending,
                 Outcome("storage_unregister", IF r.closed THEN 1 ELSE 0,
                         IF r.closed
                         THEN Log("on_account_closed", predecessor, r.balance)
                         ELSE NoLog,
                         NoBefore))

\* ------------------------------------------------------------ behaviour
Init ==
    /\ state_exists = FALSE
    /\ accounts = EmptyMap
    /\ total_supply = 0
    /\ metadata = NoMetadata
    /\ pending = EmptyBag
    /\ result = Outcome("deploy", 0, NoLog, NoBefore)

Next ==
    \/ \E o \in AccountIds, s \in Supplies, m \in Metadatas : new(o, s, m)
    \/ \E s, r \in AccountIds, n \in Amounts, d \in YoctoDeposits : ft_transfer(s, r, n, d)
    \/ \E s, r \in AccountIds, n \in Amounts, d \in YoctoDeposits : ft_transfer_call(s, r, n, d)
    \/ \E p \in BagToSet(pending), pr \in PromiseResults : ft_resolve_transfer(p, pr)
    \/ \E c, a \in AccountIds, d \in Deposits : storage_deposit(c, a, d)
    \/ \E c \in AccountIds, n \in OptAmounts, d \in YoctoDeposits : storage_withdraw(c, n, d)
    \/ \E c \in AccountIds, f \in OptBools, d \in YoctoDeposits : storage_unregister(c, f, d)

Spec == Init /\ [][Next]_vars

\* ------------------------------------------------------------ properties
\* ft_balance_of(account_id) once the step has committed
BalanceAfter(account_id) == get_or_0(accounts', account_id)
Others(a, b) == AccountIds \ {a, b}
SameElsewhere(a, b) ==
    /\ DOMAIN accounts' = DOMAIN accounts
    /\ \A o \in Others(a, b) : BalanceAfter(o) = ft_balance_of(o)

\* the step is a committed call of method op
StepOf(op) == result'.op = op

\* C1: in every reachable state, also while ft_transfer_call promises are in
\* flight, the balances of the registered accounts sum to total_supply.
C1_SupplyIsSumOfBalances == SumBalances(accounts) = ft_total_supply

\* a state inside the initiate/resolve window, three accounts registered
C1_Witness ==
    /\ pending # EmptyBag
    /\ Cardinality(DOMAIN accounts) = 3
    /\ total_supply = MaxSupply
    /\ \E a \in DOMAIN accounts : accounts[a] > 0 /\ accounts[a] < total_supply

\* C2: every ft_transfer that succeeds has a registered sender with
\* balance >= amount > 0 and a registered receiver, debits the sender by exactly
\* amount, credits the receiver by exactly amount, and leaves total_supply,
\* the registered set and every other balance as they were.
C2_TransferMovesExactlyAmount ==
    [][StepOf("ft_transfer") =>
       \A s, r \in AccountIds, n \in Amounts, d \in YoctoDeposits :
          ft_transfer(s, r, n, d) =>
              /\ s \in DOMAIN accounts /\ r \in DOMAIN accounts
              /\ accounts[s] >= n /\ n > 0
              /\ accounts'[s] = accounts[s] - n
              /\ accounts'[r] = accounts[r] + n
              /\ total_supply' = total_supply
              /\ SameElsewhere(s, r)]_vars

\* C3 as amended: when the ft_on_transfer call succeeds and returns a value v
\* with 0 <= v <= amount, v is the UNUSED amount; with no other call committed
\* between initiate and resolve, after resolution balance(S) is its pre-initiate
\* value minus (amount - v), balance(R) its pre-initiate value plus
\* (amount - v), and total_supply is unchanged.
C3_ResolveRefundsDeclaredUnused ==
    [][StepOf("ft_resolve_transfer") /\ result.op = "ft_transfer_call" =>
       \A pr \in PromiseResults :
          LET p == result.before.promise
          IN (/\ pr.kind = "Successful"
              /\ pr.value <= p.amount
              /\ ft_resolve_transfer(p, pr)) =>
                 /\ BalanceAfter(p.sender_id) =
                        result.before.sender - (p.amount - pr.value)
                 /\ BalanceAfter(p.receiver_id) =
                        result.before.receiver + (p.amount - pr.value)
                 /\ total_supply' = result.before.total_supply]_vars

\* C3 as stated: the returned value u is the USED amount, so that balance(S)
\* ends at its pre-initiate value minus u and balance(R) at its pre-initiate
\* value plus u.
C3_Original ==
    [][StepOf("ft_resolve_transfer") /\ result.op = "ft_transfer_call" =>
       \A pr \in PromiseResults :
          LET p == result.before.promise
          IN (/\ pr.kind = "Successful"
              /\ pr.value <= p.amount
              /\ ft_resolve_transfer(p, pr)) =>
                 /\ BalanceAfter(p.sender_id) = result.before.sender - pr.value
                 /\ BalanceAfter(p.receiver_id) = result.before.receiver + pr.value
                 /\ total_supply' = result.before.total_supply]_vars

\* a transfer resolved right after its initiate phase, part used, part refunded
C3_Witness ==
    /\ result.op = "ft_resolve_transfer"
    /\ result.before.sender > 0
    /\ result.val > 0
    /\ result.log.event = "Refund"
    /\ ft_balance_of(result.log.account) = result.before.sender - result.val

\* C4 as amended: when the ft_on_transfer call fails and no other call has
\* committed between initiate and resolve, the resolve phase refunds the
\* entire amount: balance(S), balance(R) and total_supply are again what they
\* were immediately before the initiate phase.
C4_FailedCallRollsBack ==
    [][StepOf("ft_resolve_transfer") /\ result.op = "ft_transfer_call" =>
       \A pr \in PromiseResults :
          LET p == result.before.promise
          IN (pr.kind = "Failed" /\ ft_resolve_transfer(p, pr)) =>
                 /\ BalanceAfter(p.sender_id) = result.before.sender
                 /\ BalanceAfter(p.receiver_id) = result.before.receiver
                 /\ BalanceAfter(p.sender_id) = ft_balance_of(p.sender_id) + p.amount
                 /\ total_supply' = result.before.total_supply]_vars

\* C4 as stated: whenever the ft_on_transfer call fails, whatever ran since
\* the initiate phase, the resolve phase refunds the entire amount to the
\* sender by reversing the initiate phase's debit and credit.
C4_Original ==
    [][StepOf("ft_resolve_transfer") =>
       \A p \in BagToSet(pending), pr \in PromiseResults :
          (pr.kind = "Failed" /\ ft_resolve_transfer(p, pr)) =>
              /\ BalanceAfter(p.sender_id) = ft_balance_of(p.sender_id) + p.amount
              /\ BalanceAfter(p.receiver_id) = ft_balance_of(p.receiver_id) - p.amount
              /\ total_supply' = total_supply]_vars

\* a transfer resolved right after its initiate phase with everything refunded
C4_Witness ==
    /\ result.op = "ft_resolve_transfer"
    /\ result.before.sender > 0
    /\ result.val = 0
    /\ result.log.event = "Refund"
    /\ ft_balance_of(result.log.account) = result.before.sender
    /\ total_supply = result.before.total_supply

\* C5 as amended: the value returned once the resolve phase completes is the
\* USED amount: amount minus what the resolve phase credited back to the
\* sender.  With no other call committed between initiate and resolve that is
\* amount - v when the ft_on_transfer call succeeded and returned the unused
\* amount v (0 <= v <= amount), and 0 when the call failed (full rollback).
C5_ResolveReturnsUsedAmount ==
    [][StepOf("ft_resolve_transfer") =>
       \A p \in BagToSet(pending), pr \in PromiseResults :
          ft_resolve_transfer(p, pr) =>
              /\ result'.val = p.amount -
                     (BalanceAfter(p.sender_id) - ft_balance_of(p.sender_id))
              /\ (Quiet(p) /\ pr.kind = "Successful" /\ pr.value <= p.amount)
                     => result'.val = p.amount - pr.value
              /\ (Quiet(p) /\ pr.kind = "Failed") => result'.val = 0]_vars

\* C5 as stated: the value returned is amount - u when the call succeeded and
\* declared u (0 <= u <= amount), and amount when the call failed.
C5_Original ==
    [][StepOf("ft_resolve_transfer") /\ result.op = "ft_transfer_call" =>
       \A pr \in PromiseResults :
          LET p == result.before.promise
          IN ft_resolve_transfer(p, pr) =>
                /\ (pr.kind = "Successful" /\ pr.value <= p.amount)
                       => result'.val = p.amount - pr.value
                /\ pr.kind = "Failed" => result'.val = p.amount]_vars

\* a transfer of at least 2 resolved right after its initiate phase returned 0,
\* all of it having been refunded
C5_Witness ==
    /\ result.op = "ft_resolve_transfer"
    /\ result.before.sender > 0
    /\ result.val = 0
    /\ result.log.event = "Refund"
    /\ result.log.amount >= 2

C7_ForcedUnregisterBurns ==
    [][/\ \A c \in DOMAIN accounts, d \in YoctoDeposits :
             accounts[c] > 0 =>
                (storage_unregister_err(c, "Some(true)", d) = "ok" <=> d = 1)
       /\ StepOf("storage_unregister") =>
             \A c \in DOMAIN accounts, d \in YoctoDeposits :
                (accounts[c] > 0 /\ storage_unregister(c, "Some(true)", d)) =>
                    /\ c \notin DOMAIN accounts'
                    /\ BalanceAfter(c) = 0
                    /\ total_supply' = total_supply - accounts[c]
                    /\ DOMAIN accounts' = DOMAIN accounts \ {c}
                    /\ \A o \in AccountIds \ {c} : BalanceAfter(o) = ft_balance_of(o)
                    /\ result'.val = 1
                    /\ result'.log = Log("on_account_closed", c, accounts[c])]_vars

\* C7 as stated: the call succeeds whatever is attached to it.
C7_Original ==
    \A c \in DOMAIN accounts, d \in YoctoDeposits :
        accounts[c] > 0 => storage_unregister_err(c, "Some(true)", d) = "ok"

\* an account holding a balance has just been closed, others still registered
C7_Witness ==
    /\ result.op = "storage_unregister"
    /\ result.log.event = "on_account_closed"
    /\ result.log.amount > 0
    /\ result.log.account \notin DOMAIN accounts
    /\ \E o \in DOMAIN accounts : accounts[o] > 0

\* C8 as amended: storage_unregister(force=false, or force omitted) called with
\* exactly one yoctoNEAR attached by a registered account whose balance is
\* greater than 0 fails with AccountHasBalance; with any other attached
\* deposit it fails on the one-yocto guard.  Either way the call is reverted:
\* the account stays registered and nothing changes.
C8_UnforcedUnregisterRefused ==
    \A c \in DOMAIN accounts, f \in {"None", "Some(false)"}, d \in YoctoDeposits :
        accounts[c] > 0 =>
            /\ storage_unregister_err(c, f, d) # "ok"
            /\ d = 1 => storage_unregister_err(c, f, d) = "AccountHasBalance"
            /\ internal_storage_unregister(Token, c, f, d).t = Token

\* C8 as stated: the call fails with AccountHasBalance whatever is attached.
C8_Original ==
    \A c \in DOMAIN accounts, f \in {"None", "Some(false)"}, d \in YoctoDeposits :
        accounts[c] > 0 => storage_unregister_err(c, f, d) = "AccountHasBalance"

\* two accounts hold a balance and an unforced unregister of one was refused
\* while a forced one would be accepted
C8_Witness ==
    \E c, o \in DOMAIN accounts :
        /\ c # o /\ accounts[c] > 0 /\ accounts[o] > 0
        /\ storage_unregister_err(c, "Some(false)", 1) = "AccountHasBalance"
        /\ storage_unregister_err(c, "Some(true)", 1) = "ok"

\* C9 as amended: ft_transfer to a receiver that is not registered fails for
\* every amount, sender and attached deposit, and the call is reverted; it
\* fails with AccountNotRegistered when one yoctoNEAR is attached, the amount
\* is positive and the sender is registered with balance >= amount (checks
\* that come first report a missing yocto, a zero amount, or the sender).
C9_UnregisteredReceiverRefused ==
    state_exists =>
        \A s, r \in AccountIds, n \in Amounts, d \in YoctoDeposits :
            r \notin DOMAIN accounts =>
                /\ ft_transfer_err(s, r, n, d) # "ok"
                /\ (d = 1 /\ n > 0 /\ s \in DOMAIN accounts /\ ft_balance_of(s) >= n)
                       => ft_transfer_err(s, r, n, d) = "AccountNotRegistered"

\* C9 as stated: the failure is AccountNotRegistered for every amount and sender.
C9_Original ==
    state_exists =>
        \A s, r \in AccountIds, n \in Amounts :
            r \notin DOMAIN accounts => ft_transfer_err(s, r, n, 1) = "AccountNotRegistered"

\* a sender with a balance, another registered account, and an unregistered
\* receiver to whom a transfer is refused
C9_Witness ==
    \E s \in DOMAIN accounts, r \in AccountIds \ DOMAIN accounts :
        /\ accounts[s] > 0
        /\ Cardinality(DOMAIN accounts) = 2
        /\ ft_transfer_err(s, r, accounts[s], 1) = "AccountNotRegistered"

\* C10 as amended: ft_transfer with amount 0 fails for every sender, receiver
\* and attached deposit, and the call is reverted; it fails with InvalidAmount
\* when one yoctoNEAR is attached and the sender is not the receiver (checks
\* that come first report a missing yocto or sender = receiver).
C10_ZeroAmountRefused ==
    state_exists =>
        \A s, r \in AccountIds, d \in YoctoDeposits :
            /\ ft_transfer_err(s, r, 0, d) # "ok"
            /\ (d = 1 /\ s # r) => ft_transfer_err(s, r, 0, d) = "InvalidAmount"

\* C10 as stated: the failure is InvalidAmount for every sender and receiver.
C10_Original ==
    state_exists =>
        \A s, r \in AccountIds : ft_transfer_err(s, r, 0, 1) = "InvalidAmount"

\* sender and receiver both registered, the sender with a balance, and a
\* transfer of 0 between them refused
C10_Witness ==
    \E s, r \in DOMAIN accounts :
        /\ s # r /\ accounts[s] > 0
        /\ ft_transfer_err(s, r, 0, 1) = "InvalidAmount"
        /\ ft_transfer_err(s, r, 1, 1) = "ok"

\* an ft_transfer has just committed with a third account registered
C2_Witness ==
    /\ result.op = "ft_transfer"
    /\ Cardinality(DOMAIN accounts) = 3
    /\ \E a, b \in DOMAIN accounts : a # b /\ accounts[a] > 0 /\ accounts[b] > 0

\* C11: initialization round trip.  In an uninitialized contract both
\* initializers succeed, new on every valid metadata and new_default_meta on
\* its default metadata, and after new(owner, n, m) ft_total_supply is n,
\* ft_balance_of(owner) is n, the owner is the only registered account and
\* ft_metadata returns m.
C11_InitRoundTrip ==
    [][/\ ~state_exists =>
             \A o \in AccountIds, n \in Supplies :
                 /\ new_default_meta_err(o, n) = "ok"
                 /\ \A m \in Metadatas : assert_valid(m) => new_err(o, n, m) = "ok"
       /\ StepOf("new") =>
             \A o \in AccountIds, n \in Supplies, m \in Metadatas :
                 new(o, n, m) =>
                     /\ ft_total_supply' = n
                     /\ BalanceAfter(o) = n
                     /\ DOMAIN accounts' = {o}
                     /\ ft_metadata' = m
                     /\ ft_metadata_err' = "ok"]_vars

\* C11 for new alone: the round trip of the initializer that takes the metadata
C11_NewRoundTrip ==
    [][StepOf("new") =>
          \A o \in AccountIds, n \in Supplies, m \in Metadatas :
              new(o, n, m) =>
                  /\ ft_total_supply' = n
                  /\ BalanceAfter(o) = n
                  /\ DOMAIN accounts' = {o}
                  /\ ft_metadata' = m
                  /\ ft_metadata_err' = "ok"]_vars

\* C12: initialization is one-time.  On an initialized contract new and
\* new_default_meta fail with "Already initialized" for every owner, supply
\* and metadata; no step is an initializer's, and the metadata and the
\* initialized state stay as they are.
C12_InitializeIsOneTime ==
    [][state_exists =>
          /\ \A o \in AccountIds, n \in Supplies :
                 /\ new_default_meta_err(o, n) = "AlreadyInitialized"
                 /\ \A m \in Metadatas : new_err(o, n, m) = "AlreadyInitialized"
          /\ \A o \in AccountIds, n \in Supplies, m \in Metadatas : ~new(o, n, m)
          /\ state_exists'
          /\ ft_metadata' = ft_metadata]_vars

\* an initialized contract past its first calls, with a second account
\* registered and tokens moved, on which new is refused
C12_Witness ==
    /\ state_exists
    /\ result.op = "ft_transfer"
    /\ Cardinality(DOMAIN accounts) >= 2
    /\ \E o \in AccountIds \ DOMAIN accounts, m \in Metadatas :
           assert_valid(m) /\ new_err(o, MaxSupply, m) = "AlreadyInitialized"

\* C13: there is no implicit default state.  While the contract is
\* uninitialized every method other than the initializers fails, with "The
\* contract is not initialized" whenever the call gets as far as reading the
\* contract (ft_resolve_transfer from another account is refused as private
\* before that), and the contract stays uninitialized and empty until new.
C13_NoImplicitDefaultState ==
    [][~state_exists =>
          /\ ft_view_err = "NotInitialized"
          /\ ft_metadata_err = "NotInitialized"
          /\ \A s, r \in AccountIds, n \in Amounts, d \in YoctoDeposits :
                 /\ ft_transfer_err(s, r, n, d) = "NotInitialized"
                 /\ ft_transfer_call_err(s, r, n, d) = "NotInitialized"
          /\ \A c, a \in AccountIds, d \in Deposits :
                 storage_deposit_err(c, a, d) = "NotInitialized"
          /\ \A c \in AccountIds, n \in OptAmounts, d \in YoctoDeposits :
                 storage_withdraw_err(c, n, d) = "NotInitialized"
          /\ \A c \in AccountIds, f \in OptBools, d \in YoctoDeposits :
                 storage_unregister_err(c, f, d) = "NotInitialized"
          /\ \A c \in Callers, b \in BOOLEAN :
                 /\ ft_resolve_transfer_err(c, b) # "ok"
                 /\ c = CurrentAccountId => ft_resolve_transfer_err(c, b) = "NotInitialized"
          /\ accounts = EmptyMap /\ total_supply = 0 /\ pending = EmptyBag
          /\ state_exists' => StepOf("new")]_vars

\* the deployed contract before any initializer has run
C13_Witness ==
    /\ ~state_exists
    /\ storage_deposit_err("alice", "alice", storage_balance_bounds_min) = "NotInitialized"
    /\ ft_transfer_err("alice", "bob", 1, 1) = "NotInitialized"
    /\ new_err("alice", MaxSupply, [DefaultMetadata EXCEPT !.reference = FALSE]) = "ok"

\* C14: storage_deposit for an account that is not registered.  With less
\* than the minimum storage balance attached the call fails, nothing is
\* registered and the whole attached deposit goes back to the caller; with
\* the minimum or more attached the account is registered with balance 0,
\* nothing else changes, and deposit - minimum is refunded.
C14_StorageDepositRegisters ==
    [][/\ state_exists =>
             \A c, a \in AccountIds, d \in Deposits :
                 a \notin DOMAIN accounts =>
                    /\ d < storage_balance_bounds_min =>
                          /\ storage_deposit_err(c, a, d) = "InsufficientDeposit"
                          /\ storage_deposit_returned(c, a, d) = d
                    /\ d >= storage_balance_bounds_min =>
                          /\ storage_deposit_err(c, a, d) = "ok"
                          /\ storage_deposit_returned(c, a, d) = d - storage_balance_bounds_min
       /\ StepOf("storage_deposit") =>
             \A c, a \in AccountIds, d \in Deposits :
                 (a \notin DOMAIN accounts /\ storage_deposit(c, a, d)) =>
                    /\ d >= storage_balance_bounds_min
                    /\ accounts' = insert(accounts, a, 0)
                    /\ total_supply' = total_supply
                    /\ result'.val = d - storage_balance_bounds_min]_vars

\* an account has just been registered by a deposit above the minimum, the
\* excess refunded, while another account is still unregistered and is
\* refused with less than the minimum
C14_Witness ==
    /\ result.op = "storage_deposit"
    /\ result.val = 1
    /\ \E a \in DOMAIN accounts : accounts[a] = 0
    /\ \E a \in AccountIds \ DOMAIN accounts :
           storage_deposit_err(a, a, 0) = "InsufficientDeposit"

\* the step burned tokens in the resolve phase: the sender of the resolved
\* transfer has no account any more and the refund left the supply
ResolveBurns ==
    /\ StepOf("ft_resolve_transfer")
    /\ result'.log.event = "on_tokens_burned"
    /\ result'.log.amount = total_supply - total_supply'
    /\ result'.log.account \notin DOMAIN accounts

\* the step closed an account by a forced storage_unregister and burned its
\* nonzero balance
ForcedUnregisterBurns ==
    /\ StepOf("storage_unregister")
    /\ result'.log.event = "on_account_closed"
    /\ result'.log.amount = total_supply - total_supply'
    /\ \A c \in AccountIds, f \in OptBools, d \in YoctoDeposits :
           storage_unregister(c, f, d) => f = "Some(true)" /\ ft_balance_of(c) > 0

\* C15 as amended: after initialization total_supply never increases, and it
\* decreases only by a burn: the forced unregistration of an account with a
\* nonzero balance, or a resolve phase whose sender has been unregistered.
C15_SupplyOnlyBurns ==
    [][state_exists =>
          /\ total_supply' <= total_supply
          /\ total_supply' < total_supply => (ForcedUnregisterBurns \/ ResolveBurns)]_vars

\* C15 as stated: forced unregistration is the only operation that decreases
\* total_supply; the resolve phase leaves it unchanged.
C15_Original ==
    [][state_exists =>
          /\ total_supply' <= total_supply
          /\ total_supply' < total_supply => ForcedUnregisterBurns]_vars

\* both burns have happened: a resolve phase has just burned a refund and
\* the supply is below what the balances held before
C15_Witness ==
    /\ result.op = "ft_resolve_transfer"
    /\ result.log.event = "on_tokens_burned"
    /\ result.log.amount > 0
    /\ total_supply < MaxSupply

\* what the resolve step credited to the sender, and what it took from the receiver
CreditedBack(p) == BalanceAfter(p.sender_id) - ft_balance_of(p.sender_id)
TakenBack(p) == ft_balance_of(p.receiver_id) - BalanceAfter(p.receiver_id)

\* C16 as amended: the value ft_on_transfer returns is the unused amount; a
\* returned value above amount is treated as amount, so that, with no other
\* call committed since the initiate phase, everything is returned to the
\* sender.  For every returned value the amount credited back to the sender
\* is between 0 and amount and is never more than what is taken from the
\* receiver; with no other call committed in between the sender ends with no
\* more than its pre-initiate balance and the receiver keeps between 0 and
\* amount of this transfer.
C16_ReturnedValueIsClamped ==
    [][StepOf("ft_resolve_transfer") =>
       \A p \in BagToSet(pending), pr \in PromiseResults :
          ft_resolve_transfer(p, pr) =>
              /\ CreditedBack(p) >= 0 /\ CreditedBack(p) <= p.amount
              /\ CreditedBack(p) <= TakenBack(p) /\ TakenBack(p) <= p.amount
              /\ Quiet(p) =>
                    /\ BalanceAfter(p.sender_id) <= result.before.sender
                    /\ BalanceAfter(p.receiver_id) >= result.before.receiver
                    /\ BalanceAfter(p.receiver_id) <= result.before.receiver + p.amount
                    /\ (pr.kind = "Successful" /\ pr.value > p.amount) =>
                          /\ CreditedBack(p) = p.amount
                          /\ BalanceAfter(p.sender_id) = result.before.sender
                          /\ BalanceAfter(p.receiver_id) = result.before.receiver]_vars

\* C16 as stated: a declared value outside [0, amount] is treated as the
\* whole amount having been used, and nothing is returned to the sender.
C16_Original ==
    [][StepOf("ft_resolve_transfer") =>
       \A p \in BagToSet(pending), pr \in PromiseResults :
          (pr.kind = "Successful" /\ pr.value > p.amount /\ ft_resolve_transfer(p, pr)) =>
              CreditedBack(p) = 0]_vars

\* a transfer of less than the largest value ft_on_transfer can return has
\* been resolved right after its initiate phase with all of it returned,
\* the receiver still holding an earlier balance
C16_Witness ==
    /\ result.op = "ft_resolve_transfer"
    /\ result.before.promise.amount > 0
    /\ result.before.promise.amount < U128_MAX
    /\ result.before.receiver > 0
    /\ result.log = Log("Refund", result.before.promise.sender_id, result.before.promise.amount)
    /\ ft_balance_of(result.before.promise.sender_id) = result.before.sender
    /\ ft_balance_of(result.before.promise.receiver_id) = result.before.receiver

\* C17 as amended: if the receiver has been unregistered between the
\* initiate and the resolve phase and the ft_on_transfer call then fails,
\* the resolve phase refunds nothing: the sender is not re-credited, the
\* receiver stays unregistered with no ledger entry, no balance and not
\* total_supply changes, and the whole amount is returned as used.
C17_UnregisteredReceiverNoRefund ==
    [][StepOf("ft_resolve_transfer") =>
       \A p \in BagToSet(pending), pr \in PromiseResults :
          (/\ pr.kind = "Failed"
           /\ p.receiver_id \notin DOMAIN accounts
           /\ ft_resolve_transfer(p, pr)) =>
              /\ accounts' = accounts
              /\ total_supply' = total_supply
              /\ p.receiver_id \notin DOMAIN accounts'
              /\ CreditedBack(p) = 0
              /\ result'.val = p.amount
              /\ result'.log = NoLog]_vars

\* C17 as stated: the resolve phase still re-credits the sender with the
\* full amount and touches no receiver balance.
C17_Original ==
    [][StepOf("ft_resolve_transfer") =>
       \A p \in BagToSet(pending), pr \in PromiseResults :
          (/\ pr.kind = "Failed"
           /\ p.receiver_id \notin DOMAIN accounts
           /\ p.sender_id \in DOMAIN accounts
           /\ ft_resolve_transfer(p, pr)) =>
              /\ CreditedBack(p) = p.amount
              /\ p.receiver_id \notin DOMAIN accounts']_vars

\* a transfer has been resolved whose receiver has no account any more while
\* its sender has one; nothing was refunded
C17_Witness ==
    /\ result.op = "ft_resolve_transfer"
    /\ result.before.promise.receiver_id \notin DOMAIN accounts
    /\ result.before.promise.sender_id \in DOMAIN accounts
    /\ result.val = result.before.promise.amount
    /\ result.log = NoLog

\* C18 as amended: in every state of the initialized contract, however many
\* accounts are registered, storage_balance_bounds returns a min equal to the
\* fixed cost of one ledger entry and a max equal to that same amount; min is
\* what storage_deposit asks of an account that is not registered.
C18_BoundsAreOneEntry ==
    state_exists =>
        /\ ft_view_err = "ok"
        /\ storage_balance_bounds.min = AccountStorageUsage * StorageByteCost
        /\ storage_balance_bounds.max = Some(storage_balance_bounds.min)
        /\ \A a \in AccountIds \ DOMAIN accounts, d \in Deposits :
               storage_deposit_err(a, a, d) = "ok" <=> d >= storage_balance_bounds.min

\* C18 as stated: min is the fixed cost of one ledger entry and there is no
\* upper bound.
C18_Original ==
    state_exists =>
        /\ storage_balance_bounds.min = AccountStorageUsage * StorageByteCost
        /\ ~storage_balance_bounds.max.is_some

\* the bounds read with one account registered are read again with three
C18_Witness ==
    /\ state_exists
    /\ Cardinality(DOMAIN accounts) = 3
    /\ result.op = "storage_deposit"
    /\ storage_balance_bounds.max.is_some
    /\ storage_balance_bounds.max.value = storage_balance_bounds_min

\* C19: whatever has run since the initiate phase, for every outcome of the
\* ft_on_transfer call the resolve phase takes from the receiver no more
\* than the receiver holds at that time, so it cannot fail on underflow,
\* leaves every balance and total_supply within 0..U128_MAX, and credits the
\* sender no more than it debits the receiver.
C19_RefundWithinReceiverBalance ==
    [][StepOf("ft_resolve_transfer") =>
          /\ \A a \in AccountIds : BalanceAfter(a) >= 0 /\ BalanceAfter(a) <= U128_MAX
          /\ total_supply' >= 0
          /\ SumBalances(accounts') = total_supply'
          /\ \A p \in BagToSet(pending), pr \in PromiseResults :
                 ft_resolve_transfer(p, pr) =>
                    /\ TakenBack(p) >= 0
                    /\ TakenBack(p) <= ft_balance_of(p.receiver_id)
                    /\ CreditedBack(p) >= 0
                    /\ CreditedBack(p) <= TakenBack(p)]_vars

\* a transfer of 2 has been resolved after the receiver had moved part of it
\* on: the refund was what the receiver still held, less than the amount
C19_Witness ==
    /\ result.op = "ft_resolve_transfer"
    /\ result.before.promise.amount = 2
    /\ result.log = Log("Refund", result.before.promise.sender_id, 1)
    /\ result.val = 1
    /\ ft_balance_of(result.before.promise.receiver_id) = 0
    /\ result.before.promise.receiver_id \in DOMAIN accounts

\* C20: if the sender has been unregistered (forced, or with a zero balance)
\* between the initiate and the resolve phase, the resolve phase creates no
\* ledger entry for the sender: the refund, the unused amount as far as the
\* receiver still holds it, is taken from the receiver and burned,
\* total_supply decreases by it, on_tokens_burned reports it, the sender
\* stays unregistered and the whole amount is returned as used.
C20_UnregisteredSenderBurns ==
    [][StepOf("ft_resolve_transfer") =>
       \A p \in BagToSet(pending), pr \in PromiseResults :
          (p.sender_id \notin DOMAIN accounts /\ ft_resolve_transfer(p, pr)) =>
              LET refund == Min(ft_balance_of(p.receiver_id), unused_amount(p.amount, pr))
              IN /\ p.sender_id \notin DOMAIN accounts'
                 /\ DOMAIN accounts' = DOMAIN accounts
                 /\ TakenBack(p) = refund
                 /\ total_supply' = total_supply - refund
                 /\ \A o \in AccountIds \ {p.receiver_id} : BalanceAfter(o) = ft_balance_of(o)
                 /\ refund > 0 => result'.log = Log("on_tokens_burned", p.sender_id, refund)
                 /\ refund = 0 => result'.log = NoLog
                 /\ result'.val = p.amount]_vars

\* a transfer whose sender closed its account in the window has been
\* resolved: the refund was burned and the sender has no account
C20_Witness ==
    /\ result.op = "ft_resolve_transfer"
    /\ result.log.event = "on_tokens_burned"
    /\ result.log.account = result.before.promise.sender_id
    /\ result.log.account \notin DOMAIN accounts
    /\ result.before.promise.receiver_id \in DOMAIN accounts
    /\ result.log.amount = result.before.promise.amount
    /\ total_supply = SumBalances(accounts)
====
